---- MODULE Spec2Model ----
(***************************************************************************)
(* The ranked retrieval core of milli's new search:                        *)
(*   - bucket_sort          (src/milli/src/search/new/bucket_sort.rs)      *)
(*   - resolve_query_graph  (src/milli/src/search/new/resolve_query_graph.rs) *)
(* Each loop iteration of a function is one action; a call of the function *)
(* starts with its entry action and ends with a record appended to the     *)
(* sequence of returned outcomes, or with a panic.                         *)
(***************************************************************************)
EXTENDS Integers, Sequences, FiniteSets, TLC

\* ----------------------------------------------------------------- bounds
\* document ids are 0..MaxDoc
MaxDoc == 2
\* the offsets and page lengths a caller asks for
MaxFrom == 2
MaxLength == 2
\* the longest list of ranking rules
MaxRules == 2
\* the most buckets a mock ranking rule emits in one descent
MaxBuckets == 2
\* the values of the distinct field are 0..MaxVal
MaxVal == 1

\* the query graph has Start, End and MaxTerms further nodes
MaxTerms == 2
\* the documents of the index the query graph is resolved on are 0..MaxRDoc
MaxRDoc == 1

Docs == 0..MaxDoc

VARIABLES
    \* ---- bucket_sort: the arguments and the index content
    ranking_rules,            \* Vec<BoxRankingRule>: each rule is the list of buckets it emits
    rule_tail,                \* what a rule answers once its list is emitted: "None",
                              \* or "Empty" for an empty bucket on every further call
    universe,                 \* &RoaringBitmap
    distinct_fid,             \* "None" or "Some"
    facet,                    \* the index: docid -> value of the distinct field
    pending,                  \* the calls (from, length) still to be made
    from,
    length,
    \* ---- bucket_sort: its local variables
    ranking_rule_universes,
    cur_ranking_rule_index,
    results,
    cur_offset,
    kept,                     \* history: the candidates (after the distinct rule) of
                              \* the buckets handed to maybe_add_to_results! so far
    \* ---- the ranking rules' own state
    emitted,                  \* per rule: buckets emitted since its start_iteration
    started,                  \* per rule: calls of start_iteration that succeeded
    ended,                    \* per rule: calls of end_iteration
    \* ---- control
    pc,                       \* "idle" | "loop" | "aborted"
    returned,                 \* the outcome of each finished call, in order
    logger,                   \* &mut dyn SearchLogger: the callbacks it received in
                              \* the last step, in order
    \* ---- resolve_query_graph: the arguments
    q,                        \* &QueryGraph: nodes, edges, root_node
    node_docids_cache,        \* &mut NodeDocIdsCache: node -> bitmap
    db_lookups,               \* per node: the times get_docids asked the database
                              \* for the posting lists of its derivations
    rq_pending,               \* the universes of the calls still to be made
    rq_universe,              \* universe: &RoaringBitmap
    \* ---- resolve_query_graph: its local variables
    nodes_resolved,
    path_nodes_docids,
    next_nodes_to_visit,
    \* ---- control
    rq_pc,                    \* "idle" | "loop" | "aborted"
    rq_returned               \* the outcome of each finished call, in order

inputs == <<ranking_rules, rule_tail, universe, distinct_fid, facet>>
args   == <<from, length>>
locals == <<ranking_rule_universes, cur_ranking_rule_index, results, cur_offset, kept>>
mock   == <<emitted, started, ended>>
bs_vars == <<inputs, pending, args, locals, mock, pc, returned, logger>>
rq_locals == <<nodes_resolved, path_nodes_docids, next_nodes_to_visit>>
rq_vars == <<q, node_docids_cache, db_lookups, rq_pending, rq_universe, rq_locals, rq_pc, rq_returned>>
vars   == <<bs_vars, rq_vars>>

\* ------------------------------------------------------- RoaringBitmap, Vec
Min(S) == CHOOSE x \in S : \A y \in S : x <= y

\* RoaringBitmap::iter: ascending docids
RECURSIVE Iter(_)
Iter(S) == IF S = {} THEN <<>> ELSE <<Min(S)>> \o Iter(S \ {Min(S)})

Skip(s, n) == SubSeq(s, n + 1, Len(s))

Take(s, n) == SubSeq(s, 1, IF n < Len(s) THEN n ELSE Len(s))

Range(s) == {s[i] : i \in 1..Len(s)}

\* ------------------------------------------------------------ distinct.rs
\* distinct_single_docid: every other document with docid's value is excluded
distinct_single_docid(docid, excluded) ==
    excluded \cup {d \in DOMAIN facet : d # docid /\ facet[d] = facet[docid]}

RECURSIVE ApplyDistinctLoop(_, _, _)
ApplyDistinctLoop(todo, remaining, excluded) ==
    IF todo = <<>> THEN [remaining |-> remaining, excluded |-> excluded]
    ELSE IF Head(todo) \in excluded
         THEN ApplyDistinctLoop(Tail(todo), remaining, excluded)
         ELSE ApplyDistinctLoop(Tail(todo), remaining \cup {Head(todo)},
                                distinct_single_docid(Head(todo), excluded))

\* apply_distinct_rule: one document per value, the lowest docid kept
apply_distinct_rule(candidates) == ApplyDistinctLoop(Iter(candidates), {}, {})

\* ------------------------------------------------------------ bucket_sort
\* lines 33-45: no ranking rule, a distinct field
RECURSIVE EmptyRulesDistinct(_, _, _, _, _)
EmptyRulesDistinct(todo, res, excluded, f, l) ==
    IF todo = <<>> THEN res
    ELSE IF Len(res) >= f + l THEN res
    ELSE IF Head(todo) \in excluded
         THEN EmptyRulesDistinct(Tail(todo), res, excluded, f, l)
         ELSE EmptyRulesDistinct(Tail(todo), Append(res, Head(todo)),
                                 distinct_single_docid(Head(todo), excluded), f, l)

\* mutant: take(length) before skip(from)
EmptyRulesPlain_TakeThenSkip(f, l) == Skip(Take(Iter(universe), l), f)

\* line 47: no ranking rule, no distinct field
EmptyRulesPlain(f, l) == Take(Skip(Iter(universe), f), l)

\* RankingRule::next_bucket of the mock rule i on its current universe
next_bucket(i) ==
    IF emitted[i] < Len(ranking_rules[i])
    THEN [some |-> TRUE,
          candidates |-> ranking_rules[i][emitted[i] + 1] \cap ranking_rule_universes[i]]
    ELSE IF rule_tail = "Empty"
    THEN [some |-> TRUE, candidates |-> {}]
    ELSE [some |-> FALSE, candidates |-> {}]

\* the state of the mock rule i after it has emitted a bucket: the buckets of
\* its list are counted; the empty buckets that follow the list, whose number
\* is unbounded, are counted modulo 2
EmittedAfter(i) ==
    IF emitted[i] <= Len(ranking_rules[i]) THEN emitted[i] + 1 ELSE Len(ranking_rules[i])

\* lines 104-137: what maybe_add_to_results! tells the logger about a bucket
\* of len candidates
MaybeAddEvents(len) ==
    IF len = 0 THEN <<>>
    ELSE IF cur_offset < from
         THEN IF cur_offset + len < from
              THEN <<"skip_bucket_ranking_rule">>
              ELSE <<"skip_bucket_ranking_rule", "add_to_results">>
         ELSE <<"add_to_results">>

\* mutant: the excluded documents stay in the universes
MaybeAddToResults_KeepExcluded(bucket, universes) ==
    LET dist == IF distinct_fid = "Some"
                THEN apply_distinct_rule(bucket)
                ELSE [remaining |-> bucket, excluded |-> {}]
        candidates == dist.remaining
        len == Cardinality(candidates)
        all_candidates == Iter(candidates)
        added == IF candidates = {} THEN <<>>
                 ELSE IF cur_offset < from
                      THEN IF cur_offset + len < from
                           THEN <<>>
                           ELSE Take(Skip(all_candidates, from - cur_offset),
                                     length - Len(results))
                      ELSE Take(all_candidates, length - Len(results))
    IN  [universes  |-> universes,
         results    |-> results \o added,
         cur_offset |-> cur_offset + len,
         events     |-> MaybeAddEvents(len),
         kept       |-> kept \cup candidates]

\* mutant: cur_offset grows by the documents added, not by the bucket
MaybeAddToResults_OffsetCountsAdded(bucket, universes) ==
    LET dist == IF distinct_fid = "Some"
                THEN apply_distinct_rule(bucket)
                ELSE [remaining |-> bucket, excluded |-> {}]
        candidates == dist.remaining
        len == Cardinality(candidates)
        all_candidates == Iter(candidates)
        added == IF candidates = {} THEN <<>>
                 ELSE IF cur_offset < from
                      THEN IF cur_offset + len < from
                           THEN <<>>
                           ELSE Take(Skip(all_candidates, from - cur_offset),
                                     length - Len(results))
                      ELSE Take(all_candidates, length - Len(results))
    IN  [universes  |-> [i \in DOMAIN universes |-> universes[i] \ dist.excluded],
         results    |-> results \o added,
         cur_offset |-> cur_offset + Len(added),
         events     |-> MaybeAddEvents(len),
         kept       |-> kept \cup candidates]

\* mutant: a bucket that straddles `from` is skipped whole
MaybeAddToResults_SkipStraddling(bucket, universes) ==
    LET dist == IF distinct_fid = "Some"
                THEN apply_distinct_rule(bucket)
                ELSE [remaining |-> bucket, excluded |-> {}]
        candidates == dist.remaining
        len == Cardinality(candidates)
        all_candidates == Iter(candidates)
        added == IF candidates = {} THEN <<>>
                 ELSE IF cur_offset < from
                      THEN <<>>
                      ELSE Take(all_candidates, length - Len(results))
    IN  [universes  |-> [i \in DOMAIN universes |-> universes[i] \ dist.excluded],
         results    |-> results \o added,
         cur_offset |-> cur_offset + len,
         events     |-> MaybeAddEvents(len),
         kept       |-> kept \cup candidates]

\* maybe_add_to_results!, lines 88-141, on the universes as they are at the call
MaybeAddToResults(bucket, universes) ==
    LET dist == IF distinct_fid = "Some"
                THEN apply_distinct_rule(bucket)
                ELSE [remaining |-> bucket, excluded |-> {}]
        candidates == dist.remaining
        len == Cardinality(candidates)
        all_candidates == Iter(candidates)
        added == IF candidates = {} THEN <<>>
                 ELSE IF cur_offset < from
                      THEN IF cur_offset + len < from
                           THEN <<>>
                           ELSE Take(Skip(all_candidates, from - cur_offset),
                                     length - Len(results))
                      ELSE Take(all_candidates, length - Len(results))
    IN  [universes  |-> [i \in DOMAIN universes |-> universes[i] \ dist.excluded],
         results    |-> results \o added,
         cur_offset |-> cur_offset + len,
         events     |-> MaybeAddEvents(len),
         kept       |-> kept \cup candidates]

\* mutant: the loop goes on while the page is not over-full
LoopTest_UntilOverfull == Len(results) <= length

\* line 143: the test of the main loop
LoopTest == Len(results) < length

\* line 170-172: the bucket is committed at this depth
CommitsHere(candidates) ==
    \/ cur_ranking_rule_index = Len(ranking_rules)
    \/ Cardinality(candidates) <= 1
    \/ cur_offset + Cardinality(candidates) < from

\* mutant: an error hands back the documents appended so far
Returns_PartialOnError(kind, docids) ==
    /\ returned' = Append(returned, [kind |-> kind,
                                     docids |-> IF kind = "Err" THEN results ELSE docids,
                                     discarded |-> 0,
                                     from |-> from', length |-> length'])
    /\ pc' = "idle"
    /\ ranking_rule_universes' = <<>>
    /\ cur_ranking_rule_index' = 0
    /\ results' = <<>>
    /\ cur_offset' = 0
    /\ kept' = {}

\* bucket_sort returns: its locals are dropped. `discarded` is the number of
\* documents that were in `results` when `?` left the function with an error
Returns(kind, docids) ==
    /\ returned' = Append(returned, [kind |-> kind, docids |-> docids,
                                     discarded |-> IF kind = "Err" THEN Len(results) ELSE 0,
                                     from |-> from', length |-> length'])
    /\ pc' = "idle"
    /\ ranking_rule_universes' = <<>>
    /\ cur_ranking_rule_index' = 0
    /\ results' = <<>>
    /\ cur_offset' = 0
    /\ kept' = {}

\* a failed assertion: the thread unwinds where it stands
Panics ==
    /\ pc' = "aborted"
    /\ UNCHANGED <<args, locals, mock, returned>>

\* back!, lines 65-81, after the iteration changed the locals to (universes,
\* res, off), told the logger of events and kept the documents of k
Back(universes, res, off, events, k) ==
    IF universes[cur_ranking_rule_index] # {}
    THEN Panics /\ logger' = events
    ELSE /\ logger' = Append(events, "end_iteration_ranking_rule")
         /\ ended' = [ended EXCEPT ![cur_ranking_rule_index] = @ + 1]
         /\ UNCHANGED <<emitted, started, args>>
         /\ IF cur_ranking_rule_index = 1
            THEN Returns("Ok", res)
            ELSE /\ cur_ranking_rule_index' = cur_ranking_rule_index - 1
                 /\ ranking_rule_universes' =
                        [universes EXCEPT ![cur_ranking_rule_index] = {}]
                 /\ results' = res
                 /\ cur_offset' = off
                 /\ kept' = k
                 /\ pc' = "loop"
                 /\ UNCHANGED returned

\* lines 18-60: the entry of bucket_sort, up to the first test of the loop
BucketSortCall ==
    /\ UNCHANGED rq_vars
    /\ pc = "idle"
    /\ pending # <<>>
    /\ pending' = Tail(pending)
    /\ from' = Head(pending).from
    /\ length' = Head(pending).length
    /\ UNCHANGED inputs
    /\ \E fault \in {"none", "distinct_field", "distinct_single_docid", "start_iteration"} :
        LET f == Head(pending).from
            l == Head(pending).length
            n == Len(ranking_rules)
            zero == [i \in 1..n |-> 0]
        IN
        /\ fault = "distinct_single_docid" =>
              /\ Cardinality(universe) >= f /\ n = 0 /\ distinct_fid = "Some"
              /\ universe # {} /\ f + l > 0
        /\ fault = "start_iteration" => Cardinality(universe) >= f /\ n > 0
        /\ logger' = <<"initial_query", "ranking_rules", "initial_universe">> \o
                      (IF fault # "distinct_field" /\ Cardinality(universe) >= f /\ n > 0
                       THEN <<"start_iteration_ranking_rule">> ELSE <<>>)
        /\ IF fault = "distinct_field"
           THEN Returns("Err", <<>>) /\ emitted' = zero /\ started' = zero /\ ended' = zero
           ELSE IF Cardinality(universe) < f
           THEN Returns("Ok", <<>>) /\ emitted' = zero /\ started' = zero /\ ended' = zero
           ELSE IF n = 0
           THEN /\ emitted' = zero /\ started' = zero /\ ended' = zero
                /\ IF distinct_fid = "Some"
                   THEN IF fault = "distinct_single_docid"
                        THEN Returns("Err", <<>>)
                        ELSE Returns("Ok", EmptyRulesDistinct(Iter(universe), <<>>, {}, f, l))
                   ELSE Returns("Ok", EmptyRulesPlain(f, l))
           ELSE /\ emitted' = zero
                /\ ended' = zero
                /\ IF fault = "start_iteration"
                   THEN started' = zero /\ Returns("Err", <<>>)
                   ELSE /\ started' = [zero EXCEPT ![1] = 1]
                        /\ ranking_rule_universes' = [i \in 1..n |-> IF i = 1 THEN universe ELSE {}]
                        /\ cur_ranking_rule_index' = 1
                        /\ results' = <<>>
                        /\ cur_offset' = 0
                        /\ kept' = {}
                        /\ pc' = "loop"
                        /\ UNCHANGED returned

\* line 143 false, line 194: the page is full
LoopExit ==
    /\ UNCHANGED rq_vars
    /\ pc = "loop"
    /\ ~LoopTest
    /\ UNCHANGED <<inputs, pending, args, mock>>
    /\ logger' = <<>>
    /\ Returns("Ok", results)

\* lines 146-151: at most one candidate is left at this depth
LoopSmallUniverse ==
    /\ UNCHANGED rq_vars
    /\ pc = "loop"
    /\ LoopTest
    /\ Cardinality(ranking_rule_universes[cur_ranking_rule_index]) <= 1
    /\ UNCHANGED <<inputs, pending>>
    /\ \E fault \in {"none", "apply_distinct_rule"} :
        /\ fault = "apply_distinct_rule" =>
              distinct_fid = "Some" /\ ranking_rule_universes[cur_ranking_rule_index] # {}
        /\ IF fault = "apply_distinct_rule"
           THEN UNCHANGED <<args, mock>> /\ logger' = <<>> /\ Returns("Err", <<>>)
           ELSE LET m == MaybeAddToResults(ranking_rule_universes[cur_ranking_rule_index],
                                           ranking_rule_universes)
                IN  Back([m.universes EXCEPT ![cur_ranking_rule_index] = {}],
                         m.results, m.cur_offset, m.events, m.kept)

\* line 153: next_bucket fails
LoopNextBucketErr ==
    /\ UNCHANGED rq_vars
    /\ pc = "loop"
    /\ LoopTest
    /\ Cardinality(ranking_rule_universes[cur_ranking_rule_index]) > 1
    /\ UNCHANGED <<inputs, pending, args, mock>>
    /\ logger' = <<>>
    /\ Returns("Err", <<>>)

\* lines 153-156: the rule has no bucket left
LoopNextBucketNone ==
    /\ UNCHANGED rq_vars
    /\ pc = "loop"
    /\ LoopTest
    /\ Cardinality(ranking_rule_universes[cur_ranking_rule_index]) > 1
    /\ ~next_bucket(cur_ranking_rule_index).some
    /\ UNCHANGED <<inputs, pending>>
    /\ Back(ranking_rule_universes, results, cur_offset, <<>>, kept)

\* lines 153-176: a bucket that is committed at this depth
LoopCommitBucket ==
    /\ UNCHANGED rq_vars
    /\ pc = "loop"
    /\ LoopTest
    /\ Cardinality(ranking_rule_universes[cur_ranking_rule_index]) > 1
    /\ next_bucket(cur_ranking_rule_index).some
    /\ CommitsHere(next_bucket(cur_ranking_rule_index).candidates)
    /\ UNCHANGED <<inputs, pending>>
    /\ \E fault \in {"none", "apply_distinct_rule"} :
        /\ fault = "apply_distinct_rule" =>
              /\ distinct_fid = "Some"
              /\ next_bucket(cur_ranking_rule_index).candidates # {}
        /\ IF fault = "apply_distinct_rule"
           THEN /\ UNCHANGED <<args, mock>>
                /\ logger' = <<"next_bucket_ranking_rule">>
                /\ Returns("Err", <<>>)
           ELSE LET i == cur_ranking_rule_index
                    candidates == next_bucket(i).candidates
                    m == MaybeAddToResults(candidates,
                            [ranking_rule_universes EXCEPT ![i] = @ \ candidates])
                IN  /\ emitted' = [emitted EXCEPT ![i] = EmittedAfter(i)]
                    /\ ranking_rule_universes' = m.universes
                    /\ results' = m.results
                    /\ cur_offset' = m.cur_offset
                    /\ kept' = m.kept
                    /\ pc' = "loop"
                    /\ logger' = <<"next_bucket_ranking_rule">> \o m.events
                    /\ UNCHANGED <<args, cur_ranking_rule_index, started, ended, returned>>

\* lines 153-191: a bucket handed to the next ranking rule
LoopDescend ==
    /\ UNCHANGED rq_vars
    /\ pc = "loop"
    /\ LoopTest
    /\ Cardinality(ranking_rule_universes[cur_ranking_rule_index]) > 1
    /\ next_bucket(cur_ranking_rule_index).some
    /\ ~CommitsHere(next_bucket(cur_ranking_rule_index).candidates)
    /\ UNCHANGED <<inputs, pending, args, ended>>
    /\ \E fault \in {"none", "start_iteration"} :
        LET i == cur_ranking_rule_index
            candidates == next_bucket(i).candidates
        IN  /\ emitted' = [emitted EXCEPT ![i] = EmittedAfter(i), ![i + 1] = 0]
            /\ logger' = <<"next_bucket_ranking_rule", "start_iteration_ranking_rule">>
            /\ IF fault = "start_iteration"
               THEN UNCHANGED started /\ Returns("Err", <<>>)
               ELSE /\ started' = [started EXCEPT ![i + 1] = @ + 1]
                    /\ cur_ranking_rule_index' = i + 1
                    /\ ranking_rule_universes' =
                          [ranking_rule_universes EXCEPT ![i] = @ \ candidates,
                                                         ![i + 1] = candidates]
                    /\ pc' = "loop"
                    /\ UNCHANGED <<results, cur_offset, kept, returned>>

Next ==
    \/ BucketSortCall
    \/ LoopExit
    \/ LoopSmallUniverse
    \/ LoopNextBucketErr
    \/ LoopNextBucketNone
    \/ LoopCommitBucket
    \/ LoopDescend

\* ------------------------------------------------------------------ inputs
Disjoint(b) == \A i, j \in DOMAIN b : i # j => b[i] \cap b[j] = {}

\* the mock ranking rules over the documents of U: up to MaxBuckets pairwise
\* disjoint buckets, None afterwards
RuleSet(U) ==
    {b \in UNION {[1..n -> SUBSET U] : n \in 1..MaxBuckets} : Disjoint(b)}

RuleLists(U) == UNION {[1..n -> RuleSet(U)] : n \in 0..MaxRules}

InitLocals ==
    /\ from = 0
    /\ length = 0
    /\ ranking_rule_universes = <<>>
    /\ cur_ranking_rule_index = 0
    /\ results = <<>>
    /\ cur_offset = 0
    /\ kept = {}
    /\ emitted = <<>>
    /\ started = <<>>
    /\ ended = <<>>
    /\ pc = "idle"
    /\ returned = <<>>
    /\ logger = <<>>

\* no query graph is being resolved
InitNoResolve ==
    /\ q = [nodes |-> <<>>, edges |-> <<>>, root_node |-> 0]
    /\ node_docids_cache = <<>>
    /\ db_lookups = <<>>
    /\ rq_pending = <<>>
    /\ rq_universe = {}
    /\ nodes_resolved = {}
    /\ path_nodes_docids = <<>>
    /\ next_nodes_to_visit = <<>>
    /\ rq_pc = "idle"
    /\ rq_returned = <<>>

\* one call of bucket_sort, on any universe, rules, page and distinct field
Init ==
    /\ universe \in SUBSET Docs
    /\ ranking_rules \in RuleLists(universe)
    /\ rule_tail = "None"
    /\ distinct_fid \in {"None", "Some"}
    /\ facet \in [Docs -> 0..MaxVal]
    /\ distinct_fid = "None" => facet = [d \in Docs |-> 0]
    /\ \E f \in 0..MaxFrom, l \in 0..MaxLength : pending = <<[from |-> f, length |-> l]>>
    /\ InitLocals
    /\ InitNoResolve

Spec == Init /\ [][Next]_vars

\* the three calls of the pagination law: (a, b), (a + b, c), (a, b + c)
InitPagination ==
    /\ universe \in SUBSET Docs
    /\ ranking_rules \in RuleLists(universe)
    /\ rule_tail = "None"
    /\ distinct_fid = "None"
    /\ facet = [d \in Docs |-> 0]
    /\ \E a \in 0..MaxFrom, b \in 0..MaxLength, c \in 0..MaxLength :
          pending = << [from |-> a, length |-> b],
                       [from |-> a + b, length |-> c],
                       [from |-> a, length |-> b + c] >>
    /\ InitLocals
    /\ InitNoResolve

SpecPagination == InitPagination /\ [][Next]_vars

\* one call of bucket_sort without a distinct field, on rules that answer None
\* after their list or go on with empty buckets
InitLoop ==
    /\ universe \in SUBSET Docs
    /\ ranking_rules \in RuleLists(universe)
    /\ rule_tail \in {"None", "Empty"}
    /\ distinct_fid = "None"
    /\ facet = [d \in Docs |-> 0]
    /\ \E f \in 0..MaxFrom, l \in 0..MaxLength : pending = <<[from |-> f, length |-> l]>>
    /\ InitLocals
    /\ InitNoResolve

\* bucket_sort is not preempted: a call that can take a step takes one
SpecLoopFair == InitLoop /\ [][Next]_vars /\ WF_vars(Next)

\* ---------------------------------------------------- the scenarios S2-S6
ScenarioDocs == 0..9

\* rule A of S3: the buckets {5,6,7}, {1,2}, {3,4,8,9,0}
RuleA == << {5, 6, 7}, {1, 2}, {3, 4, 8, 9, 0} >>

\* rule B of S3: orders a bucket by ascending docid
RuleB == [n \in 1..Cardinality(ScenarioDocs) |-> {n - 1}]

\* S5: {0,1} -> a, {2,3} -> b, {4,5,6} -> c, {7,8,9} -> d
ScenarioFacet ==
    [d \in ScenarioDocs |-> IF d <= 1 THEN 0 ELSE IF d <= 3 THEN 1 ELSE IF d <= 6 THEN 2 ELSE 3]

\* the rule lists of S2-S6, and rule A cut short of its last bucket
InitScenario ==
    /\ universe = ScenarioDocs
    /\ rule_tail = "None"
    /\ ranking_rules \in {<<>>, <<RuleA>>, <<RuleA, RuleB>>, <<SubSeq(RuleA, 1, 2), RuleB>>}
    /\ distinct_fid \in {"None", "Some"}
    /\ facet = ScenarioFacet
    /\ \E f \in 0..3, l \in 0..Cardinality(ScenarioDocs) :
          pending = <<[from |-> f, length |-> l]>>
    /\ InitLocals
    /\ InitNoResolve

SpecScenario == InitScenario /\ [][Next]_vars

\* ---------------------------------------------------- resolve_query_graph
RDocs == 0..MaxRDoc

\* the words of the index are the docids: document d holds the word d, as in
\* the documents 0..7 of test_resolve_query_graph; AbsentWord is in no document
AbsentWord == MaxRDoc + 1

Words == 0..AbsentWord

\* DatabaseCache::get_word_docids
get_word_docids(word) ==
    IF word \in RDocs THEN [some |-> TRUE, docids |-> {word}]
                      ELSE [some |-> FALSE, docids |-> {}]

\* DatabaseCache::get_prefix_docids: the documents holding a word from `word` on
get_prefix_docids(word) ==
    [some |-> {d \in RDocs : d >= word} # {}, docids |-> {d \in RDocs : d >= word}]

\* lines 38-57: the union of the posting lists of the derivations
DerivationsDocids(term) ==
    UNION {get_word_docids(w).docids : w \in {x \in term.derivations : get_word_docids(x).some}}
    \cup (IF term.use_prefix_db /\ get_prefix_docids(term.original).some
          THEN get_prefix_docids(term.original).docids
          ELSE {})

\* NodeDocIdsCache::get_docids, lines 27-67: the bitmap it returns
get_docids(term, node_idx) ==
    IF node_idx \in DOMAIN node_docids_cache
    THEN node_docids_cache[node_idx]
    ELSE DerivationsDocids(term)

\* NodeDocIdsCache::get_docids, line 65: the cache it leaves
CacheAfter(term, node_idx) ==
    IF node_idx \in DOMAIN node_docids_cache
    THEN node_docids_cache
    ELSE [n \in DOMAIN node_docids_cache \cup {node_idx} |->
            IF n = node_idx THEN DerivationsDocids(term) ELSE node_docids_cache[n]]

\* mutant: the cache is not looked at before the database
ReadsStore_IgnoresCache(term, node_idx) ==
    term.derivations # {} \/ term.use_prefix_db

\* the store is read by get_docids: it can fail
ReadsStore(term, node_idx) ==
    /\ node_idx \notin DOMAIN node_docids_cache
    /\ term.derivations # {} \/ term.use_prefix_db

\* lines 38-53: one more round of lookups for the derivations of the node
LookupsAfter(term, node_idx) ==
    IF ReadsStore(term, node_idx)
    THEN [db_lookups EXCEPT ![node_idx] = @ + 1]
    ELSE db_lookups

Predecessors(node) == q.edges[node].predecessors

Successors(node) == q.edges[node].successors

\* lines 98-99
predecessors_docids(node) == UNION {path_nodes_docids[p] : p \in Predecessors(node)}

\* mutant: Start stands for every document of the index
StartDocids_AllDocuments(u) == RDocs

\* line 113
StartDocids(u) == u

\* mutant: an empty union of predecessors is read as no constraint
TermDocids_EmptyMeansAll(preds, derivations) ==
    IF preds = {} THEN derivations ELSE preds \cap derivations

\* line 108
TermDocids(preds, derivations) == preds \cap derivations

\* mutant: a successor joins the queue even if it is queued already
RECURSIVE EnqueueSuccessors_Duplicates(_, _, _)
EnqueueSuccessors_Duplicates(succs, queue, resolved) ==
    IF succs = <<>> THEN queue
    ELSE EnqueueSuccessors_Duplicates(Tail(succs),
            IF Head(succs) \notin resolved
            THEN Append(queue, Head(succs)) ELSE queue,
            resolved)

\* lines 121-125: the successors join the queue in ascending order
RECURSIVE EnqueueSuccessors(_, _, _)
EnqueueSuccessors(succs, queue, resolved) ==
    IF succs = <<>> THEN queue
    ELSE EnqueueSuccessors(Tail(succs),
            IF Head(succs) \notin Range(queue) /\ Head(succs) \notin resolved
            THEN Append(queue, Head(succs)) ELSE queue,
            resolved)

\* mutant: a predecessor is cleared as soon as one successor is resolved
Clearable_AfterOneSuccessor(prec, resolved) == Successors(prec) \cap resolved # {}

\* line 128
Clearable(prec, resolved) == Successors(prec) \subseteq resolved

\* lines 118-131: node is resolved with the bitmap node_docids
Resolved(node, node_docids) ==
    LET resolved == nodes_resolved \cup {node}
    IN  /\ nodes_resolved' = resolved
        /\ next_nodes_to_visit' =
              EnqueueSuccessors(Iter(Successors(node)), Tail(next_nodes_to_visit), resolved)
        /\ path_nodes_docids' =
              [p \in DOMAIN path_nodes_docids |->
                  IF p \in Predecessors(node) /\ Clearable(p, resolved) THEN {}
                  ELSE IF p = node THEN node_docids
                  ELSE path_nodes_docids[p]]
        /\ rq_pc' = "loop"

\* resolve_query_graph returns: its locals are dropped
RqReturns(kind, docids) ==
    /\ rq_returned' = Append(rq_returned,
                             [kind |-> kind, docids |-> docids, universe |-> rq_universe])
    /\ rq_pc' = "idle"
    /\ nodes_resolved' = {}
    /\ path_nodes_docids' = <<>>
    /\ next_nodes_to_visit' = <<>>

\* the node the iteration pops, line 91
Popped == Head(next_nodes_to_visit)

\* line 93 false: the node can be resolved now
Ready ==
    /\ rq_pc = "loop"
    /\ next_nodes_to_visit # <<>>
    /\ Predecessors(Popped) \subseteq nodes_resolved

\* lines 84-89
ResolveCall ==
    /\ UNCHANGED bs_vars
    /\ rq_pc = "idle"
    /\ rq_pending # <<>>
    /\ rq_pending' = Tail(rq_pending)
    /\ rq_universe' = Head(rq_pending)
    /\ nodes_resolved' = {}
    /\ path_nodes_docids' = [n \in DOMAIN q.nodes |-> {}]
    /\ next_nodes_to_visit' = <<q.root_node>>
    /\ rq_pc' = "loop"
    /\ UNCHANGED <<q, node_docids_cache, db_lookups, rq_returned>>

\* lines 91-96: a predecessor is not resolved yet
LoopRequeue ==
    /\ UNCHANGED bs_vars
    /\ rq_pc = "loop"
    /\ next_nodes_to_visit # <<>>
    /\ ~(Predecessors(Popped) \subseteq nodes_resolved)
    /\ next_nodes_to_visit' = Append(Tail(next_nodes_to_visit), Popped)
    /\ UNCHANGED <<q, node_docids_cache, db_lookups, rq_pending, rq_universe, nodes_resolved,
                   path_nodes_docids, rq_pc, rq_returned>>

\* line 113
LoopStart ==
    /\ UNCHANGED bs_vars
    /\ Ready
    /\ q.nodes[Popped].kind = "Start"
    /\ Resolved(Popped, StartDocids(rq_universe))
    /\ UNCHANGED <<q, node_docids_cache, db_lookups, rq_pending, rq_universe, rq_returned>>

\* lines 104-109, with get_docids on a word, lines 27-67
LoopTerm ==
    /\ UNCHANGED bs_vars
    /\ Ready
    /\ q.nodes[Popped].kind = "Term"
    /\ UNCHANGED <<q, rq_pending, rq_universe>>
    /\ db_lookups' = LookupsAfter(q.nodes[Popped], Popped)
    /\ \E fault \in {"none", "get_docids"} :
        /\ fault = "get_docids" => ReadsStore(q.nodes[Popped], Popped)
        /\ IF fault = "get_docids"
           THEN RqReturns("Err", {}) /\ UNCHANGED node_docids_cache
           ELSE /\ node_docids_cache' = CacheAfter(q.nodes[Popped], Popped)
                /\ Resolved(Popped, TermDocids(predecessors_docids(Popped),
                                               get_docids(q.nodes[Popped], Popped)))
                /\ UNCHANGED rq_returned

\* lines 31-33: get_docids on a phrase, todo!()
LoopPhrase ==
    /\ UNCHANGED bs_vars
    /\ Ready
    /\ q.nodes[Popped].kind = "Phrase"
    /\ Popped \notin DOMAIN node_docids_cache
    /\ rq_pc' = "aborted"
    /\ UNCHANGED <<q, node_docids_cache, db_lookups, rq_pending, rq_universe, rq_locals, rq_returned>>

\* mutant: a deleted node ends the resolution with an empty bitmap
LoopDeleted_ReturnsEmpty ==
    /\ UNCHANGED bs_vars
    /\ Ready
    /\ q.nodes[Popped].kind = "Deleted"
    /\ RqReturns("Ok", {})
    /\ UNCHANGED <<q, node_docids_cache, db_lookups, rq_pending, rq_universe>>

\* lines 110-112
LoopDeleted ==
    /\ UNCHANGED bs_vars
    /\ Ready
    /\ q.nodes[Popped].kind = "Deleted"
    /\ rq_pc' = "aborted"
    /\ UNCHANGED <<q, node_docids_cache, db_lookups, rq_pending, rq_universe, rq_locals, rq_returned>>

\* lines 114-116
LoopEnd ==
    /\ UNCHANGED bs_vars
    /\ Ready
    /\ q.nodes[Popped].kind = "End"
    /\ RqReturns("Ok", predecessors_docids(Popped))
    /\ UNCHANGED <<q, node_docids_cache, db_lookups, rq_pending, rq_universe>>

\* line 135: the queue is empty and End was not visited
LoopQueueEmpty ==
    /\ UNCHANGED bs_vars
    /\ rq_pc = "loop"
    /\ next_nodes_to_visit = <<>>
    /\ rq_pc' = "aborted"
    /\ UNCHANGED <<q, node_docids_cache, db_lookups, rq_pending, rq_universe, rq_locals, rq_returned>>

NextResolve ==
    \/ ResolveCall
    \/ LoopRequeue
    \/ LoopStart
    \/ LoopTerm
    \/ LoopPhrase
    \/ LoopDeleted
    \/ LoopEnd
    \/ LoopQueueEmpty

\* ---- the query graphs
GraphNodes == 0..(MaxTerms + 1)

StartNode == [kind |-> "Start", derivations |-> {}, use_prefix_db |-> FALSE, original |-> 0]

EndNode == [kind |-> "End", derivations |-> {}, use_prefix_db |-> FALSE, original |-> 0]

DeletedNode == [kind |-> "Deleted", derivations |-> {}, use_prefix_db |-> FALSE, original |-> 0]

\* QueryNode::Term(QueryTerm::Phrase)
PhraseNode == [kind |-> "Phrase", derivations |-> {}, use_prefix_db |-> FALSE, original |-> 0]

\* QueryTerm::Word: derivations among the words of the index and one word that
\* is not in it, or the prefix database alone
TermNodes ==
    {[kind |-> "Term", derivations |-> D \cup {AbsentWord}, use_prefix_db |-> FALSE,
      original |-> AbsentWord] : D \in SUBSET RDocs}
    \cup {[kind |-> "Term", derivations |-> {}, use_prefix_db |-> TRUE, original |-> 0]}

\* the edges a graph can have: none into Start, none out of End
EdgeSets(end_node) ==
    SUBSET {e \in GraphNodes \X GraphNodes : e[1] # e[2] /\ e[1] # end_node /\ e[2] # 0}

Graph(end_node, E, content) ==
    [nodes |-> [n \in GraphNodes |-> IF n = 0 THEN StartNode
                                     ELSE IF n = end_node THEN EndNode
                                     ELSE content[n]],
     edges |-> [n \in GraphNodes |->
                    [predecessors |-> {e[1] : e \in {x \in E : x[2] = n}},
                     successors   |-> {e[2] : e \in {x \in E : x[1] = n}}]],
     root_node |-> 0]

\* no bucket_sort call is made
InitNoBucketSort ==
    /\ ranking_rules = <<>>
    /\ rule_tail = "None"
    /\ universe = {}
    /\ distinct_fid = "None"
    /\ facet = <<>>
    /\ pending = <<>>
    /\ InitLocals

\* a graph (End is the second node or the last one), a cache that starts
\* empty, and the calls on A, B and A \cup B
InitResolve ==
    /\ \E end_node \in {1, MaxTerms + 1} :
       \E E \in EdgeSets(end_node) :
       \E content \in [GraphNodes -> TermNodes \cup {PhraseNode, DeletedNode}] :
          /\ content[0] = DeletedNode /\ content[end_node] = DeletedNode
          /\ q = Graph(end_node, E, content)
    /\ node_docids_cache = <<>>
    /\ db_lookups = [n \in GraphNodes |-> 0]
    /\ \E A \in SUBSET RDocs, B \in SUBSET RDocs : rq_pending = <<A, B, A \cup B>>
    /\ rq_universe = {}
    /\ nodes_resolved = {}
    /\ path_nodes_docids = <<>>
    /\ next_nodes_to_visit = <<>>
    /\ rq_pc = "idle"
    /\ rq_returned = <<>>
    /\ InitNoBucketSort

SpecResolve == InitResolve /\ [][NextResolve]_vars

\* a graph, a cache that starts empty, and two calls on the same universe
InitResolveTwice ==
    /\ \E end_node \in {1, MaxTerms + 1} :
       \E E \in EdgeSets(end_node) :
       \E content \in [GraphNodes -> TermNodes \cup {PhraseNode, DeletedNode}] :
          /\ content[0] = DeletedNode /\ content[end_node] = DeletedNode
          /\ q = Graph(end_node, E, content)
    /\ node_docids_cache = <<>>
    /\ db_lookups = [n \in GraphNodes |-> 0]
    /\ \E A \in SUBSET RDocs : rq_pending = <<A, A>>
    /\ rq_universe = {}
    /\ nodes_resolved = {}
    /\ path_nodes_docids = <<>>
    /\ next_nodes_to_visit = <<>>
    /\ rq_pc = "idle"
    /\ rq_returned = <<>>
    /\ InitNoBucketSort

\* the loop of lines 91-134 is not preempted: it runs on until the call
\* returns or panics
SpecResolveFair == InitResolveTwice /\ [][NextResolve]_vars /\ WF_vars(NextResolve)

\* ------------------------------------------------------------------ claims
OkReturns == {i \in 1..Len(returned) : returned[i].kind = "Ok"}

\* the docids of s are pairwise different in their distinct field
DistinctValues(s) == \A i, j \in 1..Len(s) : i # j => facet[s[i]] # facet[s[j]]

\* s lists, in ascending order, the elements of S from the one of rank f
\* (0-based) on, l of them or as many as there are
IsPageOf(s, S, f, l) ==
    /\ Len(s) = (IF Cardinality(S) <= f THEN 0
                 ELSE IF Cardinality(S) - f < l THEN Cardinality(S) - f ELSE l)
    /\ \A i \in 1..Len(s) :
          s[i] \in S /\ Cardinality({d \in S : d < s[i]}) = f + i - 1

\* one document per distinct value of S, the lowest docid of each value
LowestOfEachValue(S) == {d \in S : \A e \in S : facet[e] = facet[d] => d <= e}

\* C1: the vector bucket_sort returns has at most `length` elements, all of
\* them members of the universe, whatever the rules, the page and the
\* distinct field.
C1_AtMostLengthInUniverse ==
    \A i \in OkReturns :
        /\ Len(returned[i].docids) <= returned[i].length
        /\ Range(returned[i].docids) \subseteq universe

\* C2: pagination law: without a distinct field, when the three calls
\* (a, b), (a + b, c) and (a, b + c) have returned, the first two results
\* concatenated are the third.
C2_PaginationLaw ==
    (Len(returned) = 3 /\ OkReturns = 1..3)
        => returned[1].docids \o returned[2].docids = returned[3].docids

C2_Witness ==
    /\ Len(returned) = 3 /\ OkReturns = 1..3
    /\ Len(ranking_rules) = 2
    /\ returned[1].from > 0
    /\ returned[1].docids # <<>> /\ returned[2].docids # <<>>
    /\ \E i \in 1..Len(returned[3].docids) - 1 :
          returned[3].docids[i] > returned[3].docids[i + 1]

\* C3: when bucket_sort has returned, every ranking rule has had as many
\* end_iteration calls as start_iteration calls.
C3_StartMatchedByEnd ==
    (pc = "idle" /\ returned # <<>>)
        => \A i \in DOMAIN started : ended[i] = started[i]

\* C4: with a distinct field, no two returned documents share a value of it.
C4_DistinctResults ==
    distinct_fid = "Some" => \A i \in OkReturns : DistinctValues(returned[i].docids)

C4_Witness ==
    /\ distinct_fid = "Some"
    /\ ranking_rules # <<>>
    /\ \E i \in OkReturns :
          /\ Len(returned[i].docids) >= 2
          /\ \E d \in universe \ Range(returned[i].docids) :
                \E k \in 1..Len(returned[i].docids) : facet[d] = facet[returned[i].docids[k]]

\* C5: without rules and with a distinct field, bucket_sort returns the page
\* (from, length) of the distinct-filtered universe (lowest docid of each
\* value, ascending).
C5_EmptyRulesDistinctPage ==
    (ranking_rules = <<>> /\ distinct_fid = "Some")
        => \A i \in OkReturns :
              IsPageOf(returned[i].docids, LowestOfEachValue(universe),
                       returned[i].from, returned[i].length)

\* C6: without rules and without a distinct field, bucket_sort returns the
\* ascending docids of the universe, the first `from` skipped and at most
\* `length` taken.
C6_EmptyRulesPage ==
    (ranking_rules = <<>> /\ distinct_fid = "None")
        => \A i \in OkReturns :
              IsPageOf(returned[i].docids, universe, returned[i].from, returned[i].length)

C6_Witness ==
    /\ ranking_rules = <<>> /\ distinct_fid = "None"
    /\ \E i \in OkReturns :
          /\ returned[i].from > 0
          /\ returned[i].docids # <<>>
          /\ Len(returned[i].docids) = returned[i].length
          /\ Cardinality(universe) > returned[i].from + returned[i].length

\* ---- resolve_query_graph
RqOkReturns == {i \in 1..Len(rq_returned) : rq_returned[i].kind = "Ok"}

\* the nodes reached from the nodes of S along successor edges, S included
RECURSIVE Closure(_)
Closure(S) ==
    IF S \cup UNION {Successors(n) : n \in S} = S THEN S
    ELSE Closure(S \cup UNION {Successors(n) : n \in S})

\* single Start and End hold by construction; no Deleted node, acyclic, every
\* node reachable from Start and reaching End
GraphInvariants ==
    /\ \A n \in DOMAIN q.nodes : q.nodes[n].kind # "Deleted"
    /\ \A n \in DOMAIN q.nodes : n \notin Closure(Successors(n))
    /\ \A n \in DOMAIN q.nodes :
          /\ n \in Closure({q.root_node})
          /\ \E e \in Closure({n}) : q.nodes[e].kind = "End"

\* the paths from Start to End
StartToEndPaths ==
    {p \in UNION {[1..k -> DOMAIN q.nodes] : k \in 2..Cardinality(DOMAIN q.nodes)} :
        /\ p[1] = q.root_node
        /\ q.nodes[p[Len(p)]].kind = "End"
        /\ \A i \in 1..(Len(p) - 1) : p[i + 1] \in Successors(p[i])}

\* d is in the posting list of a derivation of the term node n
InPosting(d, n) ==
    \/ \E w \in q.nodes[n].derivations :
          get_word_docids(w).some /\ d \in get_word_docids(w).docids
    \/ /\ q.nodes[n].use_prefix_db
       /\ get_prefix_docids(q.nodes[n].original).some
       /\ d \in get_prefix_docids(q.nodes[n].original).docids

MatchesSomePath(d) ==
    \E p \in StartToEndPaths :
        \A i \in 1..Len(p) : q.nodes[p[i]].kind \in {"Term", "Phrase"} => InPosting(d, p[i])

\* C7: on a graph that satisfies the graph invariants, resolve_query_graph
\* returns exactly the documents of the universe that are in the posting set
\* of every Term node of some path from Start to End.
C7_ExactlyPathMatches ==
    (RqOkReturns # {} /\ GraphInvariants)
        => \A i \in RqOkReturns :
              rq_returned[i].docids = {d \in rq_returned[i].universe : MatchesSomePath(d)}

C7_Witness ==
    /\ RqOkReturns # {}
    /\ GraphInvariants
    /\ Cardinality(StartToEndPaths) >= 2
    /\ \E n \in DOMAIN q.nodes : Cardinality(Predecessors(n)) >= 2 /\ q.nodes[n].kind = "Term"
    /\ \E i \in RqOkReturns :
          /\ rq_returned[i].docids # {}
          /\ rq_returned[i].docids # rq_returned[i].universe

\* C8: the bitmap resolve_query_graph returns is a subset of the universe.
C8_SubsetOfUniverse ==
    \A i \in RqOkReturns : rq_returned[i].docids \subseteq rq_returned[i].universe

C8_Witness ==
    \E i \in RqOkReturns :
        /\ rq_returned[i].docids # {}
        /\ rq_returned[i].universe # RDocs
        /\ \E n \in DOMAIN q.nodes :
              /\ q.nodes[n].kind = "Term"
              /\ \E d \in RDocs \ rq_returned[i].universe : InPosting(d, n)

\* C9: resolution distributes over the union of universes: the calls on A, B
\* and A \cup B return R(A), R(B) and R(A) \cup R(B).
C9_DistributesOverUnion ==
    (Len(rq_returned) = 3 /\ RqOkReturns = 1..3)
        => /\ rq_returned[3].universe = rq_returned[1].universe \cup rq_returned[2].universe
           /\ rq_returned[3].docids = rq_returned[1].docids \cup rq_returned[2].docids

C9_Witness ==
    /\ Len(rq_returned) = 3 /\ RqOkReturns = 1..3
    /\ ~(rq_returned[1].universe \subseteq rq_returned[2].universe)
    /\ ~(rq_returned[2].universe \subseteq rq_returned[1].universe)
    /\ rq_returned[1].docids # {}
    /\ rq_returned[2].docids # {}
    /\ GraphInvariants
    /\ \E n \in DOMAIN q.nodes : q.nodes[n].kind = "Term" /\ Cardinality(Successors(n)) >= 2

\* ---- the scenarios
IsS4(r) ==
    /\ ranking_rules = <<RuleA, RuleB>>
    /\ distinct_fid = "None"
    /\ universe = ScenarioDocs
    /\ r.kind = "Ok" /\ r.from = 3 /\ r.length = 3

\* C10 as stated: in scenario S4 (rules A and B, no distinct field, universe
\* 0..9, from = 3, length = 3) bucket_sort returns [1,2,3].
C10_ScenarioS4 ==
    \A i \in 1..Len(returned) : IsS4(returned[i]) => returned[i].docids = <<1, 2, 3>>

\* C10 amended: in scenario S4 bucket_sort returns [1,2,0]: rule B puts
\* document 0 first in the bucket {3,4,8,9,0}.
C10_ScenarioS4_Amended ==
    \A i \in 1..Len(returned) : IsS4(returned[i]) => returned[i].docids = <<1, 2, 0>>

C10_Witness == \E i \in 1..Len(returned) : IsS4(returned[i])

\* C11: when start_iteration, next_bucket or the distinct filter fails, the
\* call ends at that step with the error and hands back no document id, not
\* even those it had already appended to results
C11_ErrorReturnsNoDocids ==
    \A i \in 1..Len(returned) :
        returned[i].kind = "Err" =>
            /\ returned[i].docids = <<>>
            /\ (i = Len(returned) /\ pending = <<>>) => pc = "idle"

\* a call failed after documents had been appended to its results
C11_Witness ==
    \E i \in 1..Len(returned) : returned[i].kind = "Err" /\ returned[i].discarded > 0

\* the calls of resolve_query_graph that a failed lookup ended
FailedLookups == Cardinality({i \in 1..Len(rq_returned) : rq_returned[i].kind = "Err"})

\* C12: get_docids is idempotent: the bitmap a later call reads from the cache
\* is the one the first call computed from the posting lists, and the posting
\* lists of a node's derivations are looked up at most once (apart from the
\* lookups that failed and ended their call): later calls perform no lookup
C12_CacheIdempotent ==
    /\ \A n \in DOMAIN node_docids_cache :
          /\ q.nodes[n].kind = "Term"
          /\ node_docids_cache[n] = DerivationsDocids(q.nodes[n])
          /\ get_docids(q.nodes[n], n) = DerivationsDocids(q.nodes[n])
    /\ \A n \in DOMAIN db_lookups : db_lookups[n] <= 1 + FailedLookups

\* a second call has resolved a term whose bitmap the first call had cached
C12_Witness ==
    /\ Len(rq_returned) >= 1
    /\ FailedLookups = 0
    /\ rq_pc = "loop"
    /\ \E n \in nodes_resolved :
          /\ q.nodes[n].kind = "Term"
          /\ n \in DOMAIN node_docids_cache
          /\ node_docids_cache[n] # {}
          /\ db_lookups[n] = 1

HasDeletedNode == \E n \in DOMAIN q.nodes : q.nodes[n].kind = "Deleted"

\* the graph is acyclic and every node lies on a path from Start to End
OnPathsAcyclic ==
    /\ \A n \in DOMAIN q.nodes : n \notin Closure(Successors(n))
    /\ \A n \in DOMAIN q.nodes :
          /\ n \in Closure({q.root_node})
          /\ \E e \in Closure({n}) : q.nodes[e].kind = "End"

\* C13 as stated: whenever the graph contains a Deleted node, the resolution
\* fails and returns no bitmap
C13_DeletedGraphNeverReturns == HasDeletedNode => RqOkReturns = {}

\* C13 amended: the resolution panics, returning nothing, when it pops a
\* Deleted node whose predecessors are all resolved or when the queue is empty
\* before End was visited; on an acyclic graph whose nodes all lie on a path
\* from Start to End, a Deleted node lets no call return a bitmap
C13_DeletedVisitedFails ==
    /\ [](HasDeletedNode /\ OnPathsAcyclic => RqOkReturns = {})
    /\ [][(rq_pc = "loop" /\ (next_nodes_to_visit = <<>>
                               \/ (Ready /\ q.nodes[Popped].kind = "Deleted")))
            => (rq_pc' = "aborted" /\ rq_returned' = rq_returned)]_vars

\* the resolution has panicked on a Deleted node it popped
C13_Witness ==
    /\ rq_pc = "aborted"
    /\ next_nodes_to_visit # <<>>
    /\ q.nodes[Popped].kind = "Deleted"
    /\ Predecessors(Popped) \subseteq nodes_resolved

\* C14: as soon as results holds `length` documents the main loop stops: the
\* next step returns results unchanged, and no ranking rule receives another
\* next_bucket or start_iteration call
C14_EarlyExit ==
    [][(pc = "loop" /\ Len(results) = length)
        => /\ pc' = "idle"
           /\ returned' = Append(returned, [kind |-> "Ok", docids |-> results,
                                            discarded |-> 0,
                                            from |-> from, length |-> length])
           /\ emitted' = emitted
           /\ started' = started
           /\ ended' = ended]_vars

\* a call returned a full, non-empty page while its first ranking rule was
\* still iterating
C14_Witness ==
    /\ pc = "idle"
    /\ Len(returned) = 1
    /\ returned[1].kind = "Ok"
    /\ returned[1].length > 0
    /\ Len(returned[1].docids) = returned[1].length
    /\ Len(started) >= 1
    /\ started[1] = 1
    /\ ended[1] = 0

\* the bucket the next step hands to maybe_add_to_results!, if it commits one
CommittedBucket ==
    IF Cardinality(ranking_rule_universes[cur_ranking_rule_index]) <= 1
    THEN ranking_rule_universes[cur_ranking_rule_index]
    ELSE next_bucket(cur_ranking_rule_index).candidates

\* len: its candidates after distinct filtering
CommittedLen ==
    Cardinality(IF distinct_fid = "Some"
                THEN apply_distinct_rule(CommittedBucket).remaining
                ELSE CommittedBucket)

\* the step runs maybe_add_to_results! to its end
IsCommitStep ==
    /\ pc = "loop"
    /\ LoopTest
    /\ \/ Cardinality(ranking_rule_universes[cur_ranking_rule_index]) <= 1
       \/ /\ next_bucket(cur_ranking_rule_index).some
          /\ CommitsHere(next_bucket(cur_ranking_rule_index).candidates)
    /\ ~(pc' = "idle" /\ returned'[Len(returned')].kind = "Err")

\* results after the step, also when the step returns them
ResultsAfter == IF pc' = "idle" THEN returned'[Len(returned')].docids ELSE results'

\* C15: a commit step with cur_offset + len <= from leaves results unchanged,
\* emits no add_to_results event and lets cur_offset grow by len, also when
\* cur_offset + len = from
C15_SkippedBucketFrame ==
    [][(IsCommitStep /\ cur_offset + CommittedLen <= from)
        => /\ ResultsAfter = results
           /\ "add_to_results" \notin Range(logger')
           /\ pc' = "loop" => cur_offset' = cur_offset + CommittedLen]_vars

Max0(n) == IF n < 0 THEN 0 ELSE n

\* C16: at every head of the main loop results.len() is
\* min(length, max(0, cur_offset - from)), so that `length - results.len()`
\* and, where cur_offset < from, `from - cur_offset` never underflow
C16_ResultsLenAtLoopHead ==
    pc = "loop" =>
        /\ Len(results) = (IF length < Max0(cur_offset - from)
                           THEN length ELSE Max0(cur_offset - from))
        /\ length - Len(results) >= 0

\* a loop head past the offset of a page that is neither empty nor full
C16_Witness ==
    /\ pc = "loop"
    /\ from > 0
    /\ cur_offset > from
    /\ results # <<>>
    /\ Len(results) < length

\* C17: whenever back! runs, the universe of the current ranking rule is
\* empty, so the assertion of line 67 never fails, for ranking rules whose
\* buckets are pairwise disjoint subsets of the universe they are given, also
\* when next_bucket returns None
C17_BackAssertionHolds ==
    (\A i \in DOMAIN ranking_rules : Disjoint(ranking_rules[i])) => pc # "aborted"

\* C18: with a distinct field, after every commit no universe at any depth
\* holds a document that shares its distinct value with a document kept
\* (skipped or added) by that commit or an earlier one
C18_UniversesFreeOfKeptValues ==
    (pc = "loop" /\ distinct_fid = "Some") =>
        \A i \in DOMAIN ranking_rule_universes :
            \A e \in ranking_rule_universes[i] :
                \A d \in kept : facet[e] # facet[d]

\* a commit kept a document, the distinct rule removed another one with its
\* value from the universes, and documents are still to be ranked
C18_Witness ==
    /\ pc = "loop"
    /\ distinct_fid = "Some"
    /\ \E d \in kept : \E e \in universe \ kept : facet[e] = facet[d]
    /\ \E i \in DOMAIN ranking_rule_universes : ranking_rule_universes[i] # {}

\* the bitmap lines 98-113 compute for a resolved node: the universe for Start,
\* the union over the predecessors intersected with the postings for a term
RECURSIVE ComputedFor(_)
ComputedFor(n) ==
    IF q.nodes[n].kind = "Start" THEN StartDocids(rq_universe)
    ELSE TermDocids(UNION {ComputedFor(p) : p \in Predecessors(n)},
                    DerivationsDocids(q.nodes[n]))

\* C19: the path bitmap of a resolved node is cleared only once every
\* successor of the node is resolved; so whenever a node is about to be
\* resolved, or End to return, each of its predecessors still holds the
\* bitmap that was computed for it
C19_ClearedOnlyAfterSuccessors ==
    rq_pc = "loop" =>
        /\ \A p \in nodes_resolved :
              path_nodes_docids[p] # ComputedFor(p) => Successors(p) \subseteq nodes_resolved
        /\ Ready => \A p \in Predecessors(Popped) : path_nodes_docids[p] = ComputedFor(p)

\* one bitmap has been cleared, and the node to resolve next has a
\* predecessor that keeps a non-empty bitmap after one of its other
\* successors was resolved
C19_Witness ==
    /\ Ready
    /\ \E p \in nodes_resolved : ComputedFor(p) # {} /\ path_nodes_docids[p] = {}
    /\ \E r \in Predecessors(Popped) :
          /\ Successors(r) \cap nodes_resolved # {}
          /\ path_nodes_docids[r] # {}

\* every call of resolve_query_graph has ended
AllCallsEnded == rq_pc = "aborted" \/ (rq_pc = "idle" /\ rq_pending = <<>>)

\* C20: on a graph that satisfies the graph invariants every call of
\* resolve_query_graph terminates, and it does so by returning at the End
\* node unless get_docids failed (a store error, or a phrase term): the queue
\* is never empty at a loop head, no node is resolved twice, and the
\* re-queueing of nodes whose predecessors are unresolved cannot go on forever
C20_Terminates ==
    /\ <>(GraphInvariants => AllCallsEnded)
    /\ [](GraphInvariants =>
            /\ rq_pc = "loop" => next_nodes_to_visit # <<>>
            /\ Ready => Popped \notin nodes_resolved
            /\ rq_pc = "aborted" =>
                  next_nodes_to_visit # <<>> /\ q.nodes[Popped].kind = "Phrase"
            /\ (AllCallsEnded /\ rq_pc = "idle" /\ FailedLookups = 0)
                  => RqOkReturns = 1..Len(rq_returned))

\* two calls on a valid graph, in which a term has a predecessor that is
\* enqueued after it, have both returned at End
C20_Witness ==
    /\ GraphInvariants
    /\ rq_pc = "idle"
    /\ rq_pending = <<>>
    /\ RqOkReturns = 1..2
    /\ \E n \in DOMAIN q.nodes :
          /\ q.nodes[n].kind = "Term"
          /\ \E p \in Predecessors(n) : p > n

\* C21: with a non-empty list of ranking rules whose buckets are pairwise
\* disjoint subsets of the universe they are given (empty buckets allowed),
\* the main loop of bucket_sort terminates. Stated in its weakest reading:
\* the call eventually leaves the loop, by whatever exit
C21_MainLoopTerminates ==
    <>(ranking_rules = <<>> \/ (pending = <<>> /\ pc # "loop"))

====
